---- MODULE Spec2Model ----
(***************************************************************************)
(* Conversation mode controller of Adam_app: AIMode and ConversationHandler *)
(* (ai_modes.py, conversation_handler.py), the keyword, scored and         *)
(* confirmation functions of ai_chat.py, and the retrying remote call of   *)
(* app.py.                                                                 *)
(*                                                                         *)
(* A Python str is a sequence of one-character strings, so that lower(),   *)
(* the substring test `x in s` and list membership are computed and not    *)
(* assumed.  A character outside ASCII is written as its code point        *)
(* ("U+3055"); lower() leaves it as it is.                                 *)
(***************************************************************************)
EXTENDS Integers, Sequences, FiniteSets, TLC

VARIABLES
    consulting_mode,        \* AIMode.consulting_mode
    deep_exploration_mode,  \* AIMode.deep_exploration_mode
    last_result,            \* what the last message turn returned to the session
    last_op,                \* the last operation: its name, inputs, model and detector signal
    trigger,                \* history: the message whose turn raised the pending prompt
    inv_pc,                 \* make_perplexity_call: idle, calling, sleeping, returned, raised;
                            \* done once its caller has dealt with what it handed back
    attempt_number,         \* tenacity's retry_state.attempt_number
    sleeps,                 \* the backoff delays slept so far in this call
    outcomes,               \* history: the outcome of each attempt of this call
    inv_result,             \* what make_perplexity_call handed to its caller
    caller,                 \* the function that called make_perplexity_call
    pushed,                 \* the texts the caller gave to line_bot_api.push_message
    logged,                 \* the texts the caller gave to logger.error
    query_pc,               \* process_user_query: idle, acknowledging, generating,
                            \* generated, returned, raised
    query,                  \* process_user_query's argument query
    modes,                  \* process_user_query's argument modes
    immediate_response,     \* process_user_query's local immediate_response
    final_response,         \* process_user_query's local final_response
    query_result,           \* what process_user_query has returned to its caller
    det_message,            \* detect_problem_indicators' argument message
    det_scores,             \* what the five scorers handed back in that call
    det_result,             \* idle, or how detect_problem_indicators ended: True, False
                            \* or TypeError
    aimodes,                \* two conversations: the fields of each AIMode object
    responses,              \* two conversations: what each handler returned last
    two_op                  \* two conversations: the last call and the handler it was on

vars == << consulting_mode, deep_exploration_mode, last_result, last_op, trigger,
           inv_pc, attempt_number, sleeps, outcomes, inv_result, caller, pushed,
           logged, query_pc, query, modes, immediate_response, final_response,
           query_result, det_message, det_scores, det_result, aimodes, responses,
           two_op >>
conv_vars == << consulting_mode, deep_exploration_mode, last_result, last_op, trigger >>
inv_vars == << inv_pc, attempt_number, sleeps, outcomes, inv_result, caller, pushed,
              logged >>
query_vars == << query_pc, query, modes, immediate_response, final_response,
                query_result >>
\* the variables outside the conversation, and those outside the remote call
det_vars == << det_message, det_scores, det_result >>
two_vars == << aimodes, responses, two_op >>
\* the variables outside the conversation, outside the remote call, outside the
\* acknowledged query, outside the scored detector and outside the two conversations
not_conv_vars == << inv_vars, query_vars, det_vars, two_vars >>
not_inv_vars == << conv_vars, query_vars, det_vars, two_vars >>
not_query_vars == << conv_vars, inv_vars, det_vars, two_vars >>
not_det_vars == << conv_vars, inv_vars, query_vars, two_vars >>
not_two_vars == << conv_vars, inv_vars, query_vars, det_vars >>

----------------------------------------------------------------------------
(* Python str                                                              *)

UpperChars == << "A","B","C","D","E","F","G","H","I","J","K","L","M",
                 "N","O","P","Q","R","S","T","U","V","W","X","Y","Z" >>
LowerChars == << "a","b","c","d","e","f","g","h","i","j","k","l","m",
                 "n","o","p","q","r","s","t","u","v","w","x","y","z" >>

\* str.lower() on one character
lower_char(c) ==
    IF \E i \in 1..Len(UpperChars) : UpperChars[i] = c
    THEN LowerChars[CHOOSE i \in 1..Len(UpperChars) : UpperChars[i] = c]
    ELSE c

\* str.lower()
str_lower(s) == [i \in 1..Len(s) |-> lower_char(s[i])]

\* `sub in s` on two str
str_contains(sub, s) ==
    \E i \in 0..(Len(s) - Len(sub)) : SubSeq(s, i + 1, i + Len(sub)) = sub

\* `x in lst` on a list of str
list_contains(lst, x) == \E i \in 1..Len(lst) : lst[i] = x

\* any(indicator in text for indicator in indicators)
any_indicator_in(indicators, text) ==
    \E i \in 1..Len(indicators) : str_contains(indicators[i], text)

\* Python's None where a str is expected
NoneStr == << "None" >>

----------------------------------------------------------------------------
(* The inbound messages of the model                                       *)

\* "yes"
Msg_yes == <<"y","e","s">>
\* "YES"
Msg_YES == <<"Y","E","S">>
\* "Sure"
Msg_Sure == <<"S","u","r","e">>
\* "no"
Msg_no == <<"n","o">>
\* "yes please"
Msg_yes_please == <<"y","e","s"," ","p","l","e","a","s","e">>
\* "hello"
Msg_hello == <<"h","e","l","l","o">>
\* "I'm Stuck"
Msg_stuck == <<"I","'","m"," ","S","t","u","c","k">>
\* "Tell me MORE"
Msg_more == <<"T","e","l","l"," ","m","e"," ","M","O","R","E">>
\* "Burnout detail"
Msg_burnout == <<"B","u","r","n","o","u","t"," ","d","e","t","a","i","l">>
\* "divorce help"
Msg_divorce == <<"d","i","v","o","r","c","e"," ","h","e","l","p">>

Messages ==
    { Msg_yes, Msg_YES, Msg_Sure, Msg_no, Msg_yes_please, Msg_hello,
      Msg_stuck, Msg_more, Msg_burnout, Msg_divorce }

Contexts == { "humanRelationship", "career.characteristic", "general" }

----------------------------------------------------------------------------
(* Values handed back by the functions.  A response is a sequence of parts:*)
(* a fixed text, or the text an outside generator makes of its arguments.  *)
(* A returned dict is a record with the set of keys it carries; a key it   *)
(* does not carry holds FALSE, NoneStr or "".                              *)

Part(kind, arg, mode) == [kind |-> kind, arg |-> arg, mode |-> mode]
Text(kind) == << Part(kind, << >>, "") >>

Value(type, keys, response, rms, orig, mode) ==
    [type |-> type, keys |-> keys, response |-> response,
     requires_mode_switch |-> rms, original_message |-> orig, mode |-> mode]

\* Python's None as a returned value
NoneValue == Value("None", {}, << >>, FALSE, NoneStr, "")
\* an exception leaving the function
Raised(kind) == Value(kind, {}, << >>, FALSE, NoneStr, "")
\* a str as a returned value
StrValue(response) == Value("str", {}, response, FALSE, NoneStr, "")

\* `if value:` on a returned value
truthy(v) == v.type = "object" \/ (v.type = "dict" /\ v.keys # {}) \/ (v.type = "str" /\ v.response # << >>)

\* the three prompt texts that ask the user to confirm the switch
PromptKinds == { "switch_suggestion", "switch_question", "consulting_request" }
IsPrompt(response) == \E i \in 1..Len(response) : response[i].kind \in PromptKinds

----------------------------------------------------------------------------
(* ai_chat.py                                                               *)

problem_indicators ==
    << <<"e","r","r","o","r">>,
       <<"i","s","s","u","e">>,
       <<"p","r","o","b","l","e","m">>,
       <<"s","t","u","c","k">>,
       <<"h","e","l","p">>,
       <<"w","r","o","n","g">>,
       <<"n","o","t"," ","w","o","r","k","i","n","g">>,
       <<"f","a","i","l","e","d">>,
       <<"t","r","o","u","b","l","e">>,
       <<"d","e","b","u","g">> >>

detect_complex_problem(message) ==
    any_indicator_in(problem_indicators, str_lower(message))

\* generate_normal_response, analyze_problem, process_normal_message: called, defined
\* nowhere in the repository; each result stands for itself
generate_normal_response(message, current_mode) ==
    << Part("generate_normal_response", message, current_mode) >>

analyze_problem(message) == << Part("analyze_problem", message, "") >>

process_normal_message(message, current_mode) ==
    Value("object", {}, << Part("process_normal_message", message, current_mode) >>,
          FALSE, NoneStr, "")

\* handle_message_with_mode_switch with `or` for `and` in its condition: the variant
\* C5_NoEscalationNoPrompt tells from the code
handle_message_with_mode_switch_or(message, current_mode) ==
    LET normal_response == generate_normal_response(message, current_mode)
    IN  IF current_mode # "consultation" \/ detect_complex_problem(message)
        THEN Value("dict", {"response", "requires_mode_switch", "original_message"},
                   normal_response \o Text("switch_suggestion"), TRUE, message, "")
        ELSE Value("dict", {"response"}, normal_response, FALSE, NoneStr, "")

handle_message_with_mode_switch(message, current_mode) ==
    LET normal_response == generate_normal_response(message, current_mode)
    IN  IF current_mode # "consultation" /\ detect_complex_problem(message)
        THEN Value("dict", {"response", "requires_mode_switch", "original_message"},
                   normal_response \o Text("switch_suggestion"), TRUE, message, "")
        ELSE Value("dict", {"response"}, normal_response, FALSE, NoneStr, "")

affirmative_replies ==
    << <<"y","e","s">>,
       <<"y">>,
       <<"s","u","r","e">>,
       <<"o","k","a","y">> >>

\* process_mode_switch_response with a substring test for the list membership: the
\* variant C1_ConsultationOnlyByAffirmativeReply tells from the code
process_mode_switch_response_substring(user_response, message) ==
    IF any_indicator_in(affirmative_replies, str_lower(user_response))
    THEN Value("dict", {"mode", "response"},
               Text("switching_to_consultation") \o analyze_problem(message),
               FALSE, NoneStr, "consultation")
    ELSE Value("dict", {"mode", "response"}, Text("continuing_in_current_mode"),
               FALSE, NoneStr, "current")

\* process_mode_switch_response asking again after a reply it does not know: the
\* variant C7_PendingAlwaysAdvances tells from the code
process_mode_switch_response_reasks(user_response, message) ==
    IF list_contains(affirmative_replies, str_lower(user_response))
    THEN Value("dict", {"mode", "response"},
               Text("switching_to_consultation") \o analyze_problem(message),
               FALSE, NoneStr, "consultation")
    ELSE Value("dict", {"response", "requires_mode_switch", "original_message"},
               Text("switch_question"), TRUE, message, "")

process_mode_switch_response(user_response, message) ==
    IF list_contains(affirmative_replies, str_lower(user_response))
    THEN Value("dict", {"mode", "response"},
               Text("switching_to_consultation") \o analyze_problem(message),
               FALSE, NoneStr, "consultation")
    ELSE Value("dict", {"mode", "response"}, Text("continuing_in_current_mode"),
               FALSE, NoneStr, "current")

\* The scorers (analyze_sentiment .. needs_detailed_analysis) are stubs whose body is
\* `pass`: what a scorer hands back is an input of the turn, << >> for None (what
\* the stub returns today) and << v >> for the score v, in tenths (-0.3 is -3).
SentimentThreshold == -3
DistressThreshold == 6
ComplexityThreshold == 7
UrgencyThreshold == 8
AnalysisThreshold == 7

SentimentScores == { << >>, << -5 >>, << 0 >> }
ContextScores == { << >>, << 0 >>, << 9 >> }
Scores ==
    [sentiment : SentimentScores, emotional_distress : ContextScores,
     complexity_level : ContextScores, urgency_level : ContextScores,
     requires_analysis : ContextScores]

\* score < t and score > t: None against a float raises TypeError
py_lt(score, t) ==
    IF score = << >> THEN "TypeError" ELSE IF score[1] < t THEN "True" ELSE "False"
py_gt(score, t) ==
    IF score = << >> THEN "TypeError" ELSE IF score[1] > t THEN "True" ELSE "False"
\* a or b: b is evaluated only when a is False
py_or(a, b) == IF a = "False" THEN b ELSE a

detect_problem_indicators(message, scores) ==
    py_or(py_lt(scores.sentiment, SentimentThreshold),
    py_or(py_gt(scores.emotional_distress, DistressThreshold),
    py_or(py_gt(scores.complexity_level, ComplexityThreshold),
    py_or(py_gt(scores.urgency_level, UrgencyThreshold),
          py_gt(scores.requires_analysis, AnalysisThreshold)))))

\* handle_mode_switch without the test of current_mode: the variant
\* C6_ConsultationIsStable tells from the code
handle_mode_switch_ignores_mode(current_mode, message, scores) ==
    LET should_consult == detect_problem_indicators(message, scores)
    IN  CASE should_consult = "TypeError" -> Raised("TypeError")
          [] should_consult = "True" ->
               Value("dict", {"response", "requires_mode_switch"},
                     Text("switch_question"), TRUE, NoneStr, "")
          [] OTHER -> NoneValue

handle_mode_switch(current_mode, message, scores) ==
    IF current_mode # "consultation"
    THEN LET should_consult == detect_problem_indicators(message, scores)
         IN  CASE should_consult = "TypeError" -> Raised("TypeError")
               [] should_consult = "True" ->
                    Value("dict", {"response", "requires_mode_switch"},
                          Text("switch_question"), TRUE, NoneStr, "")
               [] OTHER -> NoneValue
    ELSE NoneValue

ai_chat_process_message(message, current_mode, scores) ==
    LET mode_switch == handle_mode_switch(current_mode, message, scores)
    IN  IF mode_switch.type = "TypeError" THEN mode_switch
        ELSE IF truthy(mode_switch) THEN mode_switch
        ELSE process_normal_message(message, current_mode)

----------------------------------------------------------------------------
(* ai_modes.py                                                              *)

default_model == "default-model"
deep_model == "o1-preview-2024-09-12"

humanRelationship_indicators ==
    << <<"c","o","n","f","l","i","c","t">>,
       <<"d","i","v","o","r","c","e">>,
       <<"s","e","p","a","r","a","t","i","o","n">>,
       <<"a","b","u","s","e">>,
       <<"t","r","u","s","t"," ","i","s","s","u","e","s">>,
       <<"c","o","m","m","u","n","i","c","a","t","i","o","n"," ","p","r","o","b","l","e","m","s">> >>
career_characteristic_indicators ==
    << <<"b","u","r","n","o","u","t">>,
       <<"c","a","r","e","e","r"," ","c","h","a","n","g","e">>,
       <<"w","o","r","k","p","l","a","c","e"," ","c","o","n","f","l","i","c","t">>,
       <<"p","r","o","m","o","t","i","o","n"," ","d","e","c","i","s","i","o","n">>,
       <<"l","e","a","d","e","r","s","h","i","p"," ","c","h","a","l","l","e","n","g","e","s">> >>

\* complex_indicators.get(context, [])
complex_indicators(context) ==
    CASE context = "humanRelationship" -> humanRelationship_indicators
      [] context = "career.characteristic" -> career_characteristic_indicators
      [] OTHER -> << >>

AIMode_detect_complex_problem(user_input, context) ==
    any_indicator_in(complex_indicators(context), str_lower(user_input))

request_consulting_mode(user_input) == Text("consulting_request")

\* the value each method leaves in self.consulting_mode
activate_consulting_mode == TRUE
deactivate_consulting_mode == FALSE

deep_indicators ==
    << <<"d","e","e","p","e","r">>,
       <<"U+3055","U+3089","U+306B","U+308F","U+304B">>,
       <<"U+3082","U+3063","U+3068","U+6DF1">>,
       <<"a"," ","r","e","q","u","e","s","t"," ","f","o","r"," ","a"," ","d","e","e","p","e","r"," ","e","x","p","l","o","r","a","t","i","o","n">>,
       <<"t","e","l","l"," ","m","e"," ","m","o","r","e">>,
       <<"e","l","a","b","o","r","a","t","e">>,
       <<"e","x","p","l","a","i","n"," ","f","u","r","t","h","e","r">>,
       <<"U+3088","U+308A","U+8A73","U+3057","U+304F">>,
       <<"d","e","t","a","i","l">> >>

\* detect_deep_exploration_request without lower(): the variant
\* C9_DeepModelSelection tells from the code
detect_deep_exploration_request_case_sensitive(user_input) ==
    any_indicator_in(deep_indicators, user_input)

detect_deep_exploration_request(user_input) ==
    any_indicator_in(deep_indicators, str_lower(user_input))

\* get_appropriate_model choosing the deep model in consultation mode too
get_appropriate_model_by_mode(deep_exploration, user_input) ==
    IF detect_deep_exploration_request(user_input) \/ consulting_mode
    THEN [deep_exploration_mode |-> TRUE, model |-> deep_model]
    ELSE [deep_exploration_mode |-> deep_exploration, model |-> default_model]
\* the model returned and the value left in self.deep_exploration_mode
get_appropriate_model(deep_exploration, user_input) ==
    IF detect_deep_exploration_request(user_input)
    THEN [deep_exploration_mode |-> TRUE, model |-> deep_model]
    ELSE [deep_exploration_mode |-> deep_exploration, model |-> default_model]

----------------------------------------------------------------------------
(* conversation_handler.py                                                  *)

\* generate_detailed_response, generate_standard_response: called, defined nowhere in
\* the repository; each result stands for itself, and either may raise (generated)
generate_detailed_response(input, model) ==
    << Part("generate_detailed_response", input, model) >>
generate_standard_response(input, model) ==
    << Part("generate_standard_response", input, model) >>

\* f"Detailed analysis requested: {user_input}"
enhanced_input(user_input) == << "Detailed analysis requested: " >> \o user_input

\* process_with_model taking the detailed path by the model selected for the message
process_with_model_by_model(deep_exploration, user_input, context, model, generated) ==
    IF ~generated THEN Text("fallback")
    ELSE IF model = deep_model
         THEN generate_detailed_response(enhanced_input(user_input), model)
         ELSE generate_standard_response(user_input, model)
process_with_model(deep_exploration, user_input, context, model, generated) ==
    IF ~generated THEN Text("fallback")
    ELSE IF deep_exploration
         THEN generate_detailed_response(enhanced_input(user_input), model)
         ELSE generate_standard_response(user_input, model)

\* ConversationHandler.process_message selecting the model only on the way to
\* process_with_model, after the test for a confirmation prompt
process_message_on_select_late(consulting, deep_exploration, user_input, context, generated) ==
    LET selected == get_appropriate_model(deep_exploration, user_input)
        complex == /\ context \in { "humanRelationship", "career.characteristic" }
                   /\ AIMode_detect_complex_problem(user_input, context)
    IN  IF complex /\ ~consulting
        THEN [deep_exploration_mode |-> deep_exploration,
              result |-> StrValue(request_consulting_mode(user_input)),
              model |-> default_model, complex |-> complex]
        ELSE [deep_exploration_mode |-> selected.deep_exploration_mode,
              result |-> StrValue(process_with_model(selected.deep_exploration_mode,
                                      user_input, context, selected.model, generated)),
              model |-> selected.model, complex |-> complex]
\* ConversationHandler.process_message(user_input, context) on an AIMode whose fields
\* are consulting and deep_exploration: what it returns, the model it selected, whether
\* the message was found complex, and the value left in self.deep_exploration_mode
process_message_on(consulting, deep_exploration, user_input, context, generated) ==
    LET selected == get_appropriate_model(deep_exploration, user_input)
        complex == /\ context \in { "humanRelationship", "career.characteristic" }
                   /\ AIMode_detect_complex_problem(user_input, context)
        result == IF complex /\ ~consulting
                  THEN StrValue(request_consulting_mode(user_input))
                  ELSE StrValue(process_with_model(selected.deep_exploration_mode,
                                    user_input, context, selected.model, generated))
    IN  [deep_exploration_mode |-> selected.deep_exploration_mode, result |-> result,
         model |-> selected.model, complex |-> complex]

\* the fields AIMode.__init__ sets
AIMode_init == [consulting_mode |-> FALSE, deep_exploration_mode |-> FALSE]
\* two conversations, each with a ConversationHandler of its own
Handlers == { "A", "B" }
\* the AIMode objects there can be, each named after the handler that constructed it
AIModeObjects == Handlers
\* ConversationHandler.__init__ with one AIMode object for all handlers
ConversationHandler_init_shared(handler) == "A"
\* ConversationHandler.__init__: self.ai_mode = AIMode(), a new object
ConversationHandler_init(handler) == handler
\* the record of a call on a handler
TwoOp(handler, name, input, context) ==
    [handler |-> handler, name |-> name, input |-> input, context |-> context]

----------------------------------------------------------------------------
(* message_handler.py and ai_response_handler.py                            *)

\* ProcessingMessages.career_messages, each text by its place in the list
career_messages ==
    << "career_messages[0]", "career_messages[1]", "career_messages[2]",
       "career_messages[3]" >>
\* ProcessingMessages.characteristic_messages, each text by its place in the list
characteristic_messages ==
    << "characteristic_messages[0]", "characteristic_messages[1]",
       "characteristic_messages[2]", "characteristic_messages[3]" >>
\* the text send_immediate_response returns for mode 'both'
combined_message == "Analyzing both career and personal characteristics..."

\* the indices random.choice may draw from a list of four
Picks == 1 .. 4
\* random.choice(seq), the draw being pick
random_choice(seq, pick) == seq[pick]

\* Python None where a processing message is expected
NoneAck == [ immediate_response |-> FALSE, message |-> "None", status |-> "None" ]
\* the dict send_immediate_response returns
ProcessingDict(message) ==
    [ immediate_response |-> TRUE, message |-> message, status |-> "processing" ]

\* ImmediateResponseHandler.send_immediate_response(mode)
send_immediate_response(mode, pick) ==
    IF mode = "career"
    THEN ProcessingDict(random_choice(career_messages, pick))
    ELSE IF mode = "characteristic"
    THEN ProcessingDict(random_choice(characteristic_messages, pick))
    ELSE IF mode = "both"
    THEN ProcessingDict(combined_message)
    ELSE NoneAck

\* the tags a modes argument may hold
Tags == { "career", "characteristic", "general" }
\* a modes argument: a str, or a collection of tags
StrModes(name) == [ is_str |-> TRUE, str |-> name, tags |-> {} ]
TagModes(tags) == [ is_str |-> FALSE, str |-> "", tags |-> tags ]
NoModes == TagModes({})
ModesInputs ==
    { StrModes(n) : n \in { "career", "characteristic", "both", "general" } }
        \cup { TagModes(t) : t \in SUBSET Tags }

\* AIResponseHandler.send_processing_message(modes), with the branches of the tag test
\* in another order
send_processing_message_career_first(modes_arg, pick) ==
    IF modes_arg.is_str
    THEN send_immediate_response(modes_arg.str, pick)
    ELSE IF "career" \in modes_arg.tags
    THEN send_immediate_response("career", pick)
    ELSE IF "characteristic" \in modes_arg.tags
    THEN send_immediate_response("characteristic", pick)
    ELSE IF "career" \in modes_arg.tags /\ "characteristic" \in modes_arg.tags
    THEN send_immediate_response("both", pick)
    ELSE NoneAck
\* AIResponseHandler.send_processing_message(modes)
send_processing_message(modes_arg, pick) ==
    IF modes_arg.is_str
    THEN send_immediate_response(modes_arg.str, pick)
    ELSE IF "career" \in modes_arg.tags /\ "characteristic" \in modes_arg.tags
    THEN send_immediate_response("both", pick)
    ELSE IF "career" \in modes_arg.tags
    THEN send_immediate_response("career", pick)
    ELSE IF "characteristic" \in modes_arg.tags
    THEN send_immediate_response("characteristic", pick)
    ELSE NoneAck

\* the queries given to process_user_query
Queries == { Msg_hello, Msg_more, Msg_burnout }
\* AIResponseHandler.generate_detailed_response(query, modes): called, defined nowhere
AIResponseHandler_generate_detailed_response(query_arg, modes_arg) ==
    << "generate_detailed_response", query_arg, modes_arg >>
\* final_response before the call has returned
NoFinal == << "none" >>
\* nothing returned yet; the dict process_user_query returns
NoQueryResult ==
    [ returned |-> FALSE, immediate_response |-> NoneAck, final_response |-> NoFinal ]
QueryResult(immediate, final) ==
    [ returned |-> TRUE, immediate_response |-> immediate, final_response |-> final ]

----------------------------------------------------------------------------
(* app.py: make_perplexity_call under tenacity's @retry                     *)

MaxAttempts == 3
WaitMultiplier == 1
WaitMin == 4
WaitMax == 10
\* wait_exponential's exp_base, left at tenacity's default
ExpBase == 2

\* how one attempt of client.chat.create ends: a result, or an exception
\* (a timeout after 25 s, a transport error, a rejected request, a rejected key)
FailureOutcomes == { "timeout", "connection_error", "bad_request", "auth_failure" }
AttemptOutcomes == { "ok" } \cup FailureOutcomes

RECURSIVE Pow(_, _)
Pow(b, n) == IF n = 0 THEN 1 ELSE b * Pow(b, n - 1)
Min(a, b) == IF a < b THEN a ELSE b
Max(a, b) == IF a > b THEN a ELSE b

\* stop_after_attempt comparing with > for >=: the variant
\* C11_ThreeAttemptsThenRaise tells from the code
stop_after_attempt_off_by_one(attempt) == attempt > MaxAttempts

\* stop=stop_after_attempt(3)
stop_after_attempt(attempt) == attempt >= MaxAttempts

\* wait_exponential without its lower clamp: the variant
\* C12_TwoFailuresThenSuccess tells from the code
wait_exponential_unclamped(attempt) ==
    Min(WaitMultiplier * Pow(ExpBase, attempt - 1), WaitMax)

\* wait=wait_exponential(multiplier=1, min=4, max=10)
wait_exponential(attempt) ==
    LET result == WaitMultiplier * Pow(ExpBase, attempt - 1)
    IN  Max(Max(0, WaitMin), Min(result, WaitMax))

\* reraise=True: when the attempts are used up the last exception itself is raised,
\* not tenacity's RetryError around it
reraise == TRUE

\* what make_perplexity_call hands back: nothing yet, the value attempt n returned,
\* or the exception that leaves it
NoResult == << "none", "" >>
ResultOf(attempt) == << "result", ToString(attempt) >>
ExceptionOf(outcome) == << "exception", IF reraise THEN outcome ELSE "RetryError" >>

\* the callers of app.py
Callers == { "process_job_trends_async", "handle_webhook" }

\* the fixed text process_job_trends_async pushes after a failure
ApologyText == "apology"
\* response.choices[0].message.content of a returned value
content(result) == result[2]
\* str(e) of an exception
str_e(result) == result[2]

\* a retry condition that lets a rejected request or key through at once: the variant
\* C10_TerminalFailureRetried tells from the code
retry_condition_transient_only(outcome) ==
    outcome \in { "timeout", "connection_error" }

\* no retry= argument: tenacity retries on every exception
retry_condition(outcome) == outcome \in FailureOutcomes

----------------------------------------------------------------------------
(* The conversation                                                         *)

\* the current_mode argument of the ai_chat functions
current_mode == IF consulting_mode THEN "consultation" ELSE "standard"

\* the last turn asked for a confirmation and the session waits for the reply
Pending ==
    /\ last_result.type = "dict"
    /\ "requires_mode_switch" \in last_result.keys
    /\ last_result.requires_mode_switch

\* last_result.get('original_message')
pending_original_message ==
    IF last_result.type = "dict" /\ "original_message" \in last_result.keys
    THEN last_result.original_message
    ELSE NoneStr

Op(name, input, context, model, signal) ==
    [name |-> name, input |-> input, context |-> context, model |-> model,
     signal |-> signal]

\* the scores drawn in a conversation turn: the four context scorers agree
TurnScores ==
    { s \in Scores : /\ s.emotional_distress = s.complexity_level
                     /\ s.complexity_level = s.urgency_level
                     /\ s.urgency_level = s.requires_analysis }

NoScores ==
    [sentiment |-> << >>, emotional_distress |-> << >>, complexity_level |-> << >>,
     urgency_level |-> << >>, requires_analysis |-> << >>]

Init ==
    /\ consulting_mode = FALSE
    /\ deep_exploration_mode = FALSE
    /\ last_result = NoneValue
    /\ last_op = Op("init", NoneStr, "", "", "")
    /\ trigger = NoneStr
    /\ inv_pc = "idle"
    /\ attempt_number = 0
    /\ sleeps = << >>
    /\ outcomes = << >>
    /\ inv_result = NoResult
    /\ caller = ""
    /\ pushed = << >>
    /\ logged = << >>
    /\ query_pc = "idle"
    /\ query = NoneStr
    /\ modes = NoModes
    /\ immediate_response = NoneAck
    /\ final_response = NoFinal
    /\ query_result = NoQueryResult
    /\ det_message = NoneStr
    /\ det_scores = NoScores
    /\ det_result = "idle"
    /\ aimodes = [o \in AIModeObjects |-> AIMode_init]
    /\ responses = [h \in Handlers |-> NoneValue]
    /\ two_op = TwoOp("", "init", NoneStr, "")

\* the session's record of a message turn that returned
Returned(result, input) ==
    /\ last_result' = result
    /\ trigger' = IF IsPrompt(result.response) THEN input ELSE NoneStr

\* ConversationHandler.process_message(user_input, context)
ConversationHandler_process_message(user_input, context, generated) ==
    LET done == process_message_on(consulting_mode, deep_exploration_mode, user_input,
                                   context, generated)
    IN  /\ deep_exploration_mode' = done.deep_exploration_mode
        /\ Returned(done.result, user_input)
        /\ last_op' = Op("ConversationHandler.process_message", user_input, context,
                         done.model, IF done.complex THEN "escalate" ELSE "none")
        /\ UNCHANGED consulting_mode

\* a message outside a pending confirmation, given to ConversationHandler
HandlerTurn(user_input, context, generated) ==
    /\ ~Pending
    /\ ConversationHandler_process_message(user_input, context, generated)
    /\ UNCHANGED not_conv_vars

\* a message outside a pending confirmation, given to handle_message_with_mode_switch
KeywordTurn(message) ==
    /\ ~Pending
    /\ Returned(handle_message_with_mode_switch(message, current_mode), message)
    /\ last_op' = Op("handle_message_with_mode_switch", message, "", "",
                     IF current_mode = "consultation" THEN "suppressed"
                     ELSE IF detect_complex_problem(message) THEN "escalate"
                     ELSE "none")
    /\ UNCHANGED << consulting_mode, deep_exploration_mode, not_conv_vars >>

\* a message outside a pending confirmation, given to ai_chat.process_message; a
\* TypeError leaves the turn without a result
ScoredTurn(message, scores) ==
    /\ ~Pending
    /\ LET result == ai_chat_process_message(message, current_mode, scores)
           should_consult == detect_problem_indicators(message, scores)
       IN  /\ IF result.type = "TypeError"
              THEN UNCHANGED << last_result, trigger >>
              ELSE Returned(result, message)
           /\ last_op' = Op("process_message", message, "", "",
                            IF current_mode = "consultation" THEN "suppressed"
                            ELSE IF should_consult = "True" THEN "escalate"
                            ELSE IF should_consult = "False" THEN "none"
                            ELSE "TypeError")
    /\ UNCHANGED << consulting_mode, deep_exploration_mode, not_conv_vars >>

\* a message during a pending confirmation: it is the reply
ReplyTurn(user_response) ==
    /\ Pending
    /\ LET result == process_mode_switch_response(user_response,
                                                  pending_original_message)
       IN  /\ Returned(result, user_response)
           /\ consulting_mode' = IF result.mode = "consultation"
                                 THEN activate_consulting_mode
                                 ELSE consulting_mode
    /\ last_op' = Op("process_mode_switch_response", user_response, "", "", "")
    /\ UNCHANGED << deep_exploration_mode, not_conv_vars >>

\* AIMode.deactivate_consulting_mode(), called from outside
Deactivate ==
    /\ consulting_mode' = deactivate_consulting_mode
    /\ last_op' = Op("deactivate_consulting_mode", NoneStr, "", "", "")
    /\ UNCHANGED << deep_exploration_mode, last_result, trigger, not_conv_vars >>

Next ==
    \/ \E m \in Messages, c \in Contexts, g \in BOOLEAN : HandlerTurn(m, c, g)
    \/ \E m \in Messages : KeywordTurn(m)
    \/ \E m \in Messages, s \in TurnScores : ScoredTurn(m, s)
    \/ \E m \in Messages : ReplyTurn(m)
    \/ Deactivate

Spec == Init /\ [][Next]_vars

----------------------------------------------------------------------------
(* The remote call                                                          *)

\* a caller enters make_perplexity_call(client, ...)
InvokerCall(by) ==
    /\ inv_pc \in { "idle", "done" }
    /\ inv_pc' = "calling"
    /\ attempt_number' = 1
    /\ sleeps' = << >>
    /\ outcomes' = << >>
    /\ inv_result' = NoResult
    /\ caller' = by
    /\ pushed' = << >>
    /\ logged' = << >>
    /\ UNCHANGED not_inv_vars

\* one attempt ends; tenacity returns, re-raises or sleeps
InvokerAttempt(outcome) ==
    /\ inv_pc = "calling"
    /\ outcomes' = Append(outcomes, outcome)
    /\ IF ~retry_condition(outcome)
       THEN /\ inv_pc' = IF outcome = "ok" THEN "returned" ELSE "raised"
            /\ inv_result' = IF outcome = "ok" THEN ResultOf(attempt_number)
                             ELSE ExceptionOf(outcome)
            /\ UNCHANGED sleeps
       ELSE IF stop_after_attempt(attempt_number)
            THEN /\ inv_pc' = "raised"
                 /\ inv_result' = ExceptionOf(outcome)
                 /\ UNCHANGED sleeps
            ELSE /\ inv_pc' = "sleeping"
                 /\ sleeps' = Append(sleeps, wait_exponential(attempt_number))
                 /\ UNCHANGED inv_result
    /\ UNCHANGED << attempt_number, caller, pushed, logged, not_inv_vars >>

\* the backoff sleep ends and the next attempt begins
InvokerWake ==
    /\ inv_pc = "sleeping"
    /\ inv_pc' = "calling"
    /\ attempt_number' = attempt_number + 1
    /\ UNCHANGED << sleeps, outcomes, inv_result, caller, pushed, logged, not_inv_vars >>

\* process_job_trends_async after make_perplexity_call: the content is pushed, or
\* the error is logged and the apology pushed
process_job_trends_async ==
    IF inv_result[1] = "result"
    THEN [pushed |-> << content(inv_result) >>, logged |-> << >>]
    ELSE [pushed |-> << ApologyText >>, logged |-> << str_e(inv_result) >>]

\* handle_webhook after make_perplexity_call, as far as app.py shows it: the error is
\* logged, and the except block holds nothing else
handle_webhook ==
    IF inv_result[1] = "result"
    THEN [pushed |-> << >>, logged |-> << >>]
    ELSE [pushed |-> << >>, logged |-> << str_e(inv_result) >>]

\* the caller deals with what make_perplexity_call handed back
CallerFinish ==
    /\ inv_pc \in { "returned", "raised" }
    /\ inv_pc' = "done"
    /\ LET done == IF caller = "process_job_trends_async"
                   THEN process_job_trends_async ELSE handle_webhook
       IN  pushed' = done.pushed /\ logged' = done.logged
    /\ UNCHANGED << attempt_number, sleeps, outcomes, inv_result, caller, not_inv_vars >>

NextInvoker ==
    \/ \E c \in Callers : InvokerCall(c)
    \/ \E o \in AttemptOutcomes : InvokerAttempt(o)
    \/ InvokerWake
    \/ CallerFinish

SpecInvoker == Init /\ [][NextInvoker]_vars

\* every attempt ends (at the latest by its 25 s timeout), every sleep ends, and the
\* caller goes on once make_perplexity_call has handed back
SpecInvokerFair ==
    /\ SpecInvoker
    /\ WF_vars(\E o \in AttemptOutcomes : InvokerAttempt(o))
    /\ WF_vars(InvokerWake)
    /\ WF_vars(CallerFinish)

----------------------------------------------------------------------------
(* The acknowledged query                                                   *)

\* a caller enters process_user_query(query, modes)
QueryCall(query_arg, modes_arg) ==
    /\ query_pc \in { "idle", "returned", "raised" }
    /\ query_pc' = "acknowledging"
    /\ query' = query_arg
    /\ modes' = modes_arg
    /\ immediate_response' = NoneAck
    /\ final_response' = NoFinal
    /\ query_result' = NoQueryResult
    /\ UNCHANGED not_query_vars

\* immediate_response = await self.send_processing_message(modes)
QueryAcknowledge(pick) ==
    /\ query_pc = "acknowledging"
    /\ immediate_response' = send_processing_message(modes, pick)
    /\ query_pc' = "generating"
    /\ UNCHANGED << query, modes, final_response, query_result, not_query_vars >>

\* final_response = await self.generate_detailed_response(query, modes): the call
\* returns, or raises and process_user_query raises with it
QueryGenerate(returns) ==
    /\ query_pc = "generating"
    /\ IF returns
       THEN /\ final_response' = AIResponseHandler_generate_detailed_response(query, modes)
            /\ query_pc' = "generated"
       ELSE /\ query_pc' = "raised"
            /\ UNCHANGED final_response
    /\ UNCHANGED << query, modes, immediate_response, query_result, not_query_vars >>

\* return {'immediate_response': ..., 'final_response': ...}
QueryReturn ==
    /\ query_pc = "generated"
    /\ query_result' = QueryResult(immediate_response, final_response)
    /\ query_pc' = "returned"
    /\ UNCHANGED << query, modes, immediate_response, final_response, not_query_vars >>

NextQuery ==
    \/ \E q \in Queries, m \in ModesInputs : QueryCall(q, m)
    \/ \E k \in Picks : QueryAcknowledge(k)
    \/ \E r \in BOOLEAN : QueryGenerate(r)
    \/ QueryReturn

SpecQuery == Init /\ [][NextQuery]_vars

----------------------------------------------------------------------------
(* The scored detector                                                      *)

\* detect_problem_indicators(message) is called and the five scorers hand back scores
DetectorCall(message, scores) ==
    /\ det_message' = message
    /\ det_scores' = scores
    /\ det_result' = detect_problem_indicators(message, scores)
    /\ UNCHANGED not_det_vars

NextDetector == \E m \in Messages, s \in Scores : DetectorCall(m, s)

SpecDetector == Init /\ [][NextDetector]_vars

----------------------------------------------------------------------------
(* Two conversations                                                        *)

\* the messages and contexts given to the two handlers
TwoMessages == { Msg_hello, Msg_more, Msg_burnout }
TwoContexts == { "career.characteristic", "general" }

\* handler.process_message(user_input, context)
TwoProcess(handler, user_input, context, generated) ==
    LET o == ConversationHandler_init(handler)
        done == process_message_on(aimodes[o].consulting_mode,
                                   aimodes[o].deep_exploration_mode, user_input,
                                   context, generated)
    IN  /\ aimodes' = [aimodes EXCEPT
                          ![o].deep_exploration_mode = done.deep_exploration_mode]
        /\ responses' = [responses EXCEPT ![handler] = done.result]
        /\ two_op' = TwoOp(handler, "process_message", user_input, context)
        /\ UNCHANGED not_two_vars

\* handler.ai_mode.activate_consulting_mode()
TwoActivate(handler) ==
    /\ aimodes' = [aimodes EXCEPT ![ConversationHandler_init(handler)].consulting_mode =
                                     activate_consulting_mode]
    /\ two_op' = TwoOp(handler, "activate_consulting_mode", NoneStr, "")
    /\ UNCHANGED << responses, not_two_vars >>

\* handler.ai_mode.deactivate_consulting_mode()
TwoDeactivate(handler) ==
    /\ aimodes' = [aimodes EXCEPT ![ConversationHandler_init(handler)].consulting_mode =
                                     deactivate_consulting_mode]
    /\ two_op' = TwoOp(handler, "deactivate_consulting_mode", NoneStr, "")
    /\ UNCHANGED << responses, not_two_vars >>

NextTwo ==
    \/ \E h \in Handlers, m \in TwoMessages, c \in TwoContexts, g \in BOOLEAN :
           TwoProcess(h, m, c, g)
    \/ \E h \in Handlers : TwoActivate(h)
    \/ \E h \in Handlers : TwoDeactivate(h)

SpecTwo == Init /\ [][NextTwo]_vars

----------------------------------------------------------------------------
(* Properties                                                               *)

\* the messages of Messages that are "yes", "y", "sure" or "okay" in some casing
AffirmativeMessages == { Msg_yes, Msg_YES, Msg_Sure }
\* the messages of Messages that hold a deep-exploration indicator in some casing
DeepMessages == { Msg_more, Msg_burnout }
\* the operations that process an inbound message
MessageOps ==
    { "ConversationHandler.process_message", "handle_message_with_mode_switch",
      "process_message", "process_mode_switch_response" }
\* the parts an answer pipeline makes
AnswerKinds ==
    { "generate_normal_response", "process_normal_message",
      "generate_detailed_response", "generate_standard_response", "fallback" }
\* some part of the response was made from the text
MadeFrom(response, text) == \E i \in 1..Len(response) : response[i].arg = text
\* the failures the specification calls terminal (app.py classifies nothing)
TerminalOutcomes == { "bad_request", "auth_failure" }

\* C1: the consultation flag goes from off to on only in the turn that processes an
\* affirmative reply received while a confirmation was pending; no other step sets it.
C1_ConsultationOnlyByAffirmativeReply ==
    [][ (~consulting_mode /\ consulting_mode') =>
            /\ Pending
            /\ last_op'.name = "process_mode_switch_response"
            /\ last_op'.input \in AffirmativeMessages ]_vars

\* C1 witness: the flag is on after the reply "YES"
C1_Witness ==
    /\ consulting_mode
    /\ last_op.name = "process_mode_switch_response"
    /\ last_op.input = Msg_YES

\* C2: an affirmative reply to a pending confirmation turns consultation on, and the
\* turn's output holds an answer made from the message that raised the prompt and
\* nothing made from the reply.
C2_AffirmativeReplyAnswersOriginal ==
    [][ (/\ Pending
         /\ last_op'.name = "process_mode_switch_response"
         /\ last_op'.input \in AffirmativeMessages) =>
            /\ consulting_mode'
            /\ MadeFrom(last_result'.response, trigger)
            /\ ~MadeFrom(last_result'.response, last_op'.input) ]_vars

\* C3: a reply that is not affirmative ends the pending confirmation in standard
\* mode, and the turn's output holds an answer made from that reply.
C3_OtherReplyIsAnswered ==
    [][ (/\ Pending
         /\ last_op'.name = "process_mode_switch_response"
         /\ last_op'.input \notin AffirmativeMessages) =>
            /\ ~consulting_mode'
            /\ ~Pending'
            /\ MadeFrom(last_result'.response, last_op'.input) ]_vars

\* C4: in standard mode a message the detector escalates leaves the session pending,
\* with that message as the pending original message and a prompt in the output.
C4_EscalationEntersPending ==
    [][ (~consulting_mode /\ ~Pending /\ last_op'.signal = "escalate") =>
            /\ Pending'
            /\ pending_original_message' = last_op'.input
            /\ IsPrompt(last_result'.response) ]_vars

\* C5: in standard mode a message the detector does not escalate leaves the session
\* not pending, with no prompt in the output and an answer of the normal pipeline.
C5_NoEscalationNoPrompt ==
    [][ (~consulting_mode /\ ~Pending /\ last_op'.signal = "none") =>
            /\ ~Pending'
            /\ ~IsPrompt(last_result'.response)
            /\ \E i \in 1..Len(last_result'.response) :
                   last_result'.response[i].kind \in AnswerKinds ]_vars

\* C5 witness: standard mode after a message the keyword detector did not escalate
C5_Witness ==
    /\ ~consulting_mode
    /\ last_op.name = "handle_message_with_mode_switch"
    /\ last_op.signal = "none"
    /\ last_op.input = Msg_hello

\* C6: in consultation mode no step raises a prompt or a pending confirmation, and
\* only deactivate_consulting_mode turns the flag off.
C6_ConsultationIsStable ==
    [][ consulting_mode =>
            /\ ~IsPrompt(last_result'.response)
            /\ ~Pending'
            /\ (consulting_mode' \/ last_op'.name = "deactivate_consulting_mode") ]_vars

\* C6 witness: consultation mode after a message that holds an escalation indicator
C6_Witness ==
    /\ consulting_mode
    /\ last_op.name \in { "ConversationHandler.process_message", "process_message" }
    /\ last_op.signal \in { "escalate", "suppressed" }
    /\ last_op.input = Msg_divorce

\* C7: a message can be given to the session in every state; while a confirmation
\* is pending every message is taken as the reply (and not as a fresh message), and
\* after the turn of a reply no confirmation is pending: the session never waits
\* without a way on.
C7_PendingAlwaysAdvances ==
    /\ IF Pending
       THEN \A m \in Messages : ENABLED ReplyTurn(m) /\ ~ENABLED KeywordTurn(m)
       ELSE /\ ENABLED (\E m \in Messages : KeywordTurn(m))
            /\ ENABLED (\E m \in Messages : ScoredTurn(m, NoScores))
            /\ ENABLED (\E m \in Messages : HandlerTurn(m, "general", TRUE))
    /\ last_op.name = "process_mode_switch_response" => ~Pending

\* C7 witness: the user went on chatting and the pending confirmation is over
C7_Witness ==
    /\ last_op.name = "process_mode_switch_response"
    /\ last_op.input = Msg_hello
    /\ ~Pending
    /\ ~consulting_mode

\* C8: the session holds an original message exactly when a confirmation is pending.
C8_OriginalIffPending ==
    (last_result.type = "dict" /\ "original_message" \in last_result.keys) <=> Pending

\* C9: the model selected for a message is the deep model exactly when the message
\* holds a deep-exploration indicator, in either mode, and no step turns the
\* deep-exploration flag off.
C9_DeepModelSelection ==
    [][ /\ (last_op'.name = "ConversationHandler.process_message" =>
               /\ last_op'.model = IF last_op'.input \in DeepMessages
                                   THEN deep_model ELSE default_model
               /\ (last_op'.input \in DeepMessages => deep_exploration_mode'))
        /\ (deep_exploration_mode => deep_exploration_mode') ]_vars

\* C9 witness: in consultation mode "Tell me MORE" got the deep model and set the flag
C9_Witness ==
    /\ consulting_mode
    /\ deep_exploration_mode
    /\ last_op.name = "ConversationHandler.process_message"
    /\ last_op.input = Msg_more
    /\ last_op.model = deep_model

TransientOutcomes == { "timeout", "connection_error" }

\* C11: a call whose attempts all fail transiently is attempted MaxAttempts (3) times
\* with a sleep between each two, then raises the last failure; no call makes a
\* fourth attempt, and every call that is under way ends.
C11_ThreeAttemptsThenRaise ==
    /\ [](/\ attempt_number <= MaxAttempts
          /\ Len(outcomes) <= MaxAttempts
          /\ (/\ Len(outcomes) = MaxAttempts
              /\ \A i \in 1..Len(outcomes) : outcomes[i] \in TransientOutcomes) =>
                 /\ inv_pc \in { "raised", "done" }
                 /\ Len(sleeps) = MaxAttempts - 1
                 /\ inv_result = << "exception", outcomes[MaxAttempts] >>)
    /\ (inv_pc = "calling" ~> inv_pc \in { "returned", "raised" })

\* C11 witness: raised after a timeout, a transport error and a timeout
C11_Witness ==
    /\ inv_pc = "raised"
    /\ outcomes = << "timeout", "connection_error", "timeout" >>
    /\ Len(sleeps) = 2

\* C12: a call that fails transiently twice and then succeeds returns the value of
\* the third attempt after exactly two sleeps, each between 4 and 10, the second
\* not shorter than the first.
C12_TwoFailuresThenSuccess ==
    (/\ Len(outcomes) = 3
     /\ outcomes[1] \in TransientOutcomes
     /\ outcomes[2] \in TransientOutcomes
     /\ outcomes[3] = "ok") =>
        /\ inv_pc \in { "returned", "done" }
        /\ inv_result = << "result", "3" >>
        /\ Len(sleeps) = 2
        /\ \A i \in 1..Len(sleeps) : 4 <= sleeps[i] /\ sleeps[i] <= 10
        /\ sleeps[2] >= sleeps[1]

\* C12 witness: returned from the third attempt after two timeouts
C12_Witness ==
    /\ inv_pc = "returned"
    /\ outcomes = << "timeout", "timeout", "ok" >>
    /\ Len(sleeps) = 2

\* C13: when make_perplexity_call has ended in a failure and its caller is done, the
\* caller has pushed exactly one message, the fixed apology.
C13_FailureEndsInApology ==
    (inv_pc = "done" /\ inv_result[1] = "exception") => pushed = << ApologyText >>

\* the recognized tags a modes argument names
RecognizedTags(modes_arg) ==
    IF modes_arg.is_str
    THEN IF modes_arg.str = "both" THEN { "career", "characteristic" }
         ELSE { modes_arg.str } \cap { "career", "characteristic" }
    ELSE modes_arg.tags \cap { "career", "characteristic" }
\* the texts of a pool
PoolOf(seq) == { seq[i] : i \in DOMAIN seq }
\* the processing message the caller of process_user_query can see
ObservableAck == query_result.immediate_response

\* C14: once the substantive call of a turn has completed, an acknowledgment made for
\* that turn is already observable to the caller: it is never made observable only
\* after the substantive call.
C14_AcknowledgmentNotBehindCompletion ==
    (query_pc = "generated" /\ immediate_response # NoneAck)
        => ObservableAck = immediate_response

\* C15: the acknowledgment is a career pool text when "career" is the only recognized
\* tag, a characteristic pool text when "characteristic" is the only one, the fixed
\* combined message and no pool text when both are present, and none when no recognized
\* tag is present, in which case the turn goes on to the substantive call all the same.
C15_AcknowledgmentByTags ==
    query_pc \in { "generating", "generated", "returned" } =>
        LET t == RecognizedTags(modes)
            pools == PoolOf(career_messages) \cup PoolOf(characteristic_messages)
        IN  /\ t = { "career" } =>
                /\ immediate_response.immediate_response
                /\ immediate_response.message \in PoolOf(career_messages)
            /\ t = { "characteristic" } =>
                /\ immediate_response.immediate_response
                /\ immediate_response.message \in PoolOf(characteristic_messages)
            /\ t = { "career", "characteristic" } =>
                /\ immediate_response.immediate_response
                /\ immediate_response.message = combined_message
                /\ immediate_response.message \notin pools
            /\ t = {} => immediate_response = NoneAck
\* a turn whose modes hold both tags and another one has the combined message and has
\* gone on to the substantive call
C15_Witness ==
    /\ query_pc = "generated"
    /\ ~modes.is_str
    /\ modes.tags = Tags
    /\ immediate_response.message = combined_message

\* a score that is there and crosses its threshold
Below(score, t) == score # << >> /\ score[1] < t
Above(score, t) == score # << >> /\ score[1] > t
SomeScoreCrosses(scores) ==
    \/ Below(scores.sentiment, SentimentThreshold)
    \/ Above(scores.emotional_distress, DistressThreshold)
    \/ Above(scores.complexity_level, ComplexityThreshold)
    \/ Above(scores.urgency_level, UrgencyThreshold)
    \/ Above(scores.requires_analysis, AnalysisThreshold)

\* C16: the scored detector ends without raising whatever scores are absent, and it
\* reports escalation exactly when some score that is there crosses its threshold, so
\* never when every score is absent.
C16_AbsentScoreDoesNotTrigger ==
    det_result # "idle" =>
        /\ det_result \in { "True", "False" }
        /\ det_result = "True" <=> SomeScoreCrosses(det_scores)

\* what a conversation can see of itself: its mode, its deep-exploration flag and the
\* output it observed last
View(handler) == << aimodes[ConversationHandler_init(handler)], responses[handler] >>

\* C17: a call on one conversation's handler leaves the mode, the deep-exploration flag
\* and the observed output of every other conversation as they were.
C17_ConversationsIndependent ==
    [][\A h \in Handlers : h # two_op'.handler => View(h)' = View(h)]_vars
\* conversation A is in consultation with deep exploration on after its own messages,
\* while B, which has an output of its own, is in neither
C17_Witness ==
    /\ two_op.handler = "A"
    /\ aimodes["A"] = [consulting_mode |-> TRUE, deep_exploration_mode |-> TRUE]
    /\ aimodes["B"] = AIMode_init
    /\ responses["A"] # NoneValue
    /\ responses["B"] # NoneValue

\* a step that is a message turn ending early with a confirmation prompt
PromptTurn ==
    /\ last_op'.name \in MessageOps
    /\ IsPrompt(last_result'.response)
    /\ last_result' # last_result \/ last_op' # last_op

\* C18: a turn that ends early with a confirmation prompt leaves the mode and the
\* deep-exploration flag unchanged.
C18_PromptTurnLeavesStateUnchanged ==
    [][PromptTurn => /\ consulting_mode' = consulting_mode
                     /\ deep_exploration_mode' = deep_exploration_mode]_vars
\* C18, as the code has it: a turn that ends early with a confirmation prompt leaves
\* the mode unchanged, and leaves the deep-exploration flag unchanged unless it is a turn
\* of ConversationHandler whose message asks for deep exploration, in which case the
\* flag is on after the turn.
C18_PromptTurnSetsFlagOnRequest ==
    [][PromptTurn => /\ consulting_mode' = consulting_mode
                     /\ deep_exploration_mode' =
                            \/ deep_exploration_mode
                            \/ /\ last_op'.name = "ConversationHandler.process_message"
                               /\ last_op'.input \in DeepMessages]_vars
\* a handler turn has ended with the prompt, on a message that asks for deep
\* exploration, and the flag is on
C18_Witness ==
    /\ last_op.name = "ConversationHandler.process_message"
    /\ IsPrompt(last_result.response)
    /\ last_op.input = Msg_burnout
    /\ ~consulting_mode
    /\ deep_exploration_mode

\* C19: the mode and the deep-exploration flag are independent: a turn of
\* ConversationHandler, which selects the model, leaves the mode as it was and returns
\* the deep model exactly for a message that asks for deep exploration, whatever the
\* mode; a reply that activates consultation mode and a deactivation leave the flag as
\* it was.
C19_IndependentAxes ==
    [][/\ last_op'.name = "ConversationHandler.process_message" =>
            /\ consulting_mode' = consulting_mode
            /\ last_op'.model = IF last_op'.input \in DeepMessages
                                THEN deep_model ELSE default_model
       /\ last_op'.name \in { "process_mode_switch_response",
                              "deactivate_consulting_mode" } =>
            deep_exploration_mode' = deep_exploration_mode]_vars
\* consultation mode has just been activated by a reply while the flag was on
C19_Witness ==
    /\ last_op.name = "process_mode_switch_response"
    /\ last_result.mode = "consultation"
    /\ consulting_mode
    /\ deep_exploration_mode
\* the other three combinations of mode and flag, after a turn
C19_ConsultationWithoutFlag ==
    last_op.name # "init" /\ consulting_mode /\ ~deep_exploration_mode
C19_FlagWithoutConsultation ==
    last_op.name # "init" /\ ~consulting_mode /\ deep_exploration_mode
C19_Neither ==
    last_op.name # "init" /\ ~consulting_mode /\ ~deep_exploration_mode

\* the last turn's answer came from the detailed-response path, its input prefixed
\* with the deep-analysis marker
DetailedPath ==
    \E i \in DOMAIN last_result.response :
        /\ last_result.response[i].kind = "generate_detailed_response"
        /\ last_result.response[i].arg = enhanced_input(last_op.input)
\* the last turn's answer came from the standard-response path
StandardPath ==
    \E i \in DOMAIN last_result.response :
        last_result.response[i].kind = "generate_standard_response"

\* C20: a turn of ConversationHandler takes the detailed-response path only when the
\* model chosen for its message is the deep model, and a message that gets the default
\* model takes the standard-response path or none.
C20_DetailedPathOnlyWithDeepModel ==
    last_op.name = "ConversationHandler.process_message" =>
        /\ DetailedPath => last_op.model = deep_model
        /\ last_op.model = default_model => ~DetailedPath
\* C20, as the code has it: a turn of ConversationHandler that generates an answer takes
\* the detailed-response path exactly when the deep-exploration flag is on after model
\* selection, that is when this message or any earlier one of the conversation asked
\* for deep exploration; the model handed to the path is the one chosen for the message.
C20_DetailedPathFollowsFlag ==
    last_op.name = "ConversationHandler.process_message" =>
        /\ DetailedPath => deep_exploration_mode
        /\ StandardPath => ~deep_exploration_mode
        /\ \A i \in DOMAIN last_result.response :
               last_result.response[i].kind \in { "generate_detailed_response",
                                                  "generate_standard_response" }
                   => last_result.response[i].mode = last_op.model
\* a message that got the default model went through the detailed-response path,
\* because an earlier message had asked for deep exploration
C20_Witness ==
    /\ last_op.name = "ConversationHandler.process_message"
    /\ last_op.input = Msg_hello
    /\ last_op.model = default_model
    /\ DetailedPath
    /\ deep_exploration_mode

====
